---- MODULE Spec2Model ----
(***************************************************************************)
(* The recording aggregation engine of the Recording Explorer: the hook    *)
(* useRecordings (src/src/hooks/useRecordings.ts).  One fetchRecordings    *)
(* invocation is a chain of event-loop tasks: the synchronous start        *)
(* (setLoading, setError), the dispatch to the demo generator, the phone   *)
(* walk or the meetings request, and one task per network answer.  A task  *)
(* runs to completion; other invocations interleave only at an await.      *)
(* The backend worker (src/unnamed/part_000, _worker.js) is modelled next   *)
(* to it: its token cache and its phone and download handlers.             *)
(***************************************************************************)
EXTENDS Integers, Sequences, FiniteSets, TLC

\* ------------------------------------------------------------------ bounds
\* records one phone walk may be given in total, over all its pages
MaxRecs == 2
\* records of one upstream page
MaxPageLen == 2
\* pages of a walk that may carry a cursor when invocations overlap (Spec)
MaxChain == 3
\* meetings of one aggregated response
MaxMeetings == 1
\* records the demo generator returns
MaxDemo == 1
\* embedded files of one meeting
MaxFiles == 4
\* steps of 10 s the worker's clock may advance
MaxTicks == 4

\* ------------------------------------------------------- program constants
MAX_PHONE_PAGES == 20

\* _worker.js: the early-refresh margin (30_000 ms) and the lifetime, in
\* seconds, assumed for a token whose answer names none
RefreshMarginMs == 30000
DefaultExpiresIn == 3600

PhoneEndpoint == "/api/phone/recordings"
MeetingEndpoint == "/api/meeting/recordings"

\* the hook's props: the requested date range
from == "2025-11-01"
to == "2025-11-13"

\* ------------------------------------------------------------ JS values
Absent == "undefined"
Null == "null"

Nullish(v) == v \in {Absent, Null}

\* a ?? b
Coalesce(a, b) == IF Nullish(a) THEN b ELSE a

\* if (s != null): the empty string passes
NotNullish(s) == ~Nullish(s)

\* if (s) for a string-or-null value
Truthy(s) == ~Nullish(s) /\ s # ""

\* a || b for string-or-null values
Or(a, b) == IF Truthy(a) THEN a ELSE b

\* values that are not strings carry their typeof
Undefined == [type |-> "undefined"]
Num(n) == [type |-> "number", nan |-> FALSE, val |-> n]
NaN == [type |-> "number", nan |-> TRUE, val |-> 0]
Str(s) == [type |-> "string", str |-> s]
Arr(items) == [type |-> "array", items |-> items]

\* fetchRecordings has no interlock: a second invocation may start while an
\* earlier one is in flight.  A slot holds one invocation from its start to
\* its settling and is then free for the next one.
Invocations == {1, 2}

SeqsUpTo(S, n) == UNION {[1..k -> S] : k \in 0..n}

\* ------------------------------------------------------- upstream values
\* a record of a phone page, with the fields the upstream gave it
UpstreamRecs ==
  { [ id |-> "a", source |-> Absent, topic |-> Absent, host_email |-> Absent,
      files_types |-> Undefined ],
    [ id |-> "b", source |-> "meetings", topic |-> "Weekly sync",
      host_email |-> "h@x.com", files_types |-> Arr(<< "MP4" >>) ] }

Cursors == {Absent, Null, "", "t1", "t2"}

Min(a, b) == IF a < b THEN a ELSE b

\* the pages the upstream may answer with, holding at most room records
PhonePages(room) ==
  [ from : {Absent, "2025-10-31"},
    to : {Absent, "2025-11-14"},
    next_page_token : Cursors,
    has_recordings : {TRUE},
    recordings : SeqsUpTo(UpstreamRecs, Min(MaxPageLen, room)) ]
  \cup
  [ from : {Absent, "2025-10-31"},
    to : {Absent, "2025-11-14"},
    next_page_token : Cursors,
    has_recordings : {FALSE},
    recordings : {<< >>} ]

\* an embedded file descriptor of a meeting
File(start, size, type) ==
  [recording_start |-> start, file_size |-> size, file_type |-> type]

StartValues ==
  { Absent, "", "invalid", "2025-11-05T10:00Z", "2025-11-05T09:00Z",
    "2025-11-05T09:00:00.000Z" }

SizeValues == { Undefined, Num(0), Num(50), Num(100), NaN, Str("x") }

TimedFiles == { File(s, Undefined, "MP4") : s \in StartValues }

SizedFiles == { File(Absent, z, Absent) : z \in SizeValues }

TypedFiles == { File(Absent, Undefined, t) : t \in {Absent, "", "MP4", "M4A"} }

\* a meeting with no identity field and no file list
PlainMeeting(uuid, id) ==
  [ uuid |-> uuid,
    id |-> id,
    topic |-> Absent,
    start_time |-> "2025-11-04T08:00:00Z",
    hostEmail |-> Absent,
    host_email |-> Absent,
    owner_email |-> Absent,
    hostName |-> Absent,
    owner_name |-> Absent,
    has_files |-> FALSE,
    recording_files |-> << >> ]

Meetings == { PlainMeeting("u1", 11), PlainMeeting("", 42) }

\* meetings that differ in their identity fields
IdentityMeetings ==
  { [ PlainMeeting("u1", 11) EXCEPT
        !.hostEmail = he, !.host_email = h, !.owner_email = oe,
        !.hostName = hn, !.owner_name = on, !.topic = tp ] :
      he \in {Absent, "", "he@x.com"}, h \in {Absent, "h@x.com"},
      oe \in {Absent, "a@x.com"}, hn \in {Absent, "", "Host N"},
      on \in {Absent, "Owner N"}, tp \in {Absent, "", "Topic"} }

\* meetings that differ in their embedded files
FileMeetings ==
  { [ PlainMeeting("u1", 11) EXCEPT
        !.has_files = TRUE, !.recording_files = fs, !.start_time = st ] :
      fs \in SeqsUpTo(TimedFiles, MaxFiles) \cup SeqsUpTo(SizedFiles, MaxFiles)
               \cup SeqsUpTo(TypedFiles, MaxFiles),
      st \in {Absent, "2025-11-04T08:00:00Z"} }

MeetingPages ==
  [ from : {Absent, "2025-10-31"},
    to : {Absent, "2025-11-14"},
    has_meetings : {TRUE},
    meetings : SeqsUpTo(Meetings, MaxMeetings) ]
  \cup
  [ from : {Absent, "2025-10-31"},
    to : {Absent, "2025-11-14"},
    has_meetings : {FALSE},
    meetings : {<< >>} ]

\* responses carrying one meeting with identity fields or embedded files
RichMeetingPages ==
  [ from : {Absent},
    to : {Absent},
    has_meetings : {TRUE},
    meetings : { << m >> : m \in IdentityMeetings \cup FileMeetings } ]

\* what fetch() can give back besides a 2xx answer: a non-2xx answer, or a
\* rejection (transport failure), whose error may have an empty message
TransportErrors ==
  { [message |-> "", string |-> "TypeError"] }

NoError == [message |-> Absent, string |-> Absent]

OkResponses(bodies) ==
  { [kind |-> "response", status |-> 200, body |-> b] : b \in bodies }

FailedResponses ==
  { [kind |-> "response", status |-> s, text |-> "boom", error |-> NoError] :
      s \in {500} }
  \cup
  { [kind |-> "rejected", status |-> 0, text |-> "", error |-> e] :
      e \in TransportErrors }

\* ------------------------------------------------------------- fetchJson
HttpError(status, text) ==
  [ message |-> "HTTP " \o ToString(status) \o ": " \o text,
    string |-> "Error: HTTP " \o ToString(status) \o ": " \o text ]

ResOk(res) == res.status \in 200..299

FetchJson(res) ==
  IF res.kind = "rejected" THEN [threw |-> TRUE, error |-> res.error]
  ELSE IF ~ResOk(res) THEN [threw |-> TRUE, error |-> HttpError(res.status, res.text)]
  ELSE [threw |-> FALSE, value |-> res.body]

\* ------------------------------------------------------------ the state
VARIABLES
  data,            \* useState: the stored envelope, or NoData
  loading,         \* useState
  error,           \* useState: a message, or Null
  pc,              \* position of the invocation in each slot
  demoMode,        \* the props the invocation's closure captured
  source,
  allRecs,         \* locals of the invocation's fetchAllPhoneRecordings
  nextToken,
  loops,
  apiFrom,
  apiTo,
  net,             \* requests issued and not yet answered
  hist,            \* history of the invocation in flight in each slot
  settled          \* history of the invocation that settled last

\* The backend worker (_worker.js): the module-level token cache, the clock
\* Date.now() reads, and the handler invocations of one worker instance.
VARIABLES
  now,             \* Date.now(), in ms
  cachedToken,     \* let cachedToken
  cachedTokenExp,  \* let cachedTokenExp
  wpc,             \* position of the handler invocation in each slot
  wreq,            \* the request each handler invocation serves
  wnet,            \* outbound requests of the worker not yet answered
  wlast            \* the response the worker returned last

hook ==
  << data, loading, error, pc, demoMode, source, allRecs, nextToken, loops,
     apiFrom, apiTo, net, hist, settled >>

worker == << now, cachedToken, cachedTokenExp, wpc, wreq, wnet, wlast >>

vars == << hook, worker >>

hookState == << data, loading, error >>
closure == << demoMode, source >>
walkLocals == << allRecs, nextToken, loops, apiFrom, apiTo >>

NoData == [isNull |-> TRUE]

\* ------------------------------------------------- the worker's values
\* handler invocations of one worker instance that may be in flight together
Handlers == {1, 2}

\* the hosts of ZOOM_API_BASE and ZOOM_OAUTH_TOKEN_URL
ApiHost == "api.zoom.us"
OAuthHost == "zoom.us"

\* A pathname is the list of its pieces: a path that begins with the
\* download prefix is cut right after it.
DownloadPrefix == << "/v2/phone/recording/download" >>

Url(hostname, pathname) == [hostname |-> hostname, pathname |-> pathname]

NoUrl == Url("", << >>)

\* new URL(target): it throws for a string that is no absolute URL; the
\* hostname is lower-cased, userinfo is not part of it, and dot segments of
\* the path are resolved
ParseUrl(target) ==
  CASE target = "https://zoom.us/v2/phone/recording/download/abc" ->
         [threw |-> FALSE, url |-> Url("zoom.us", DownloadPrefix \o << "/abc" >>)]
    [] target = "https://ZOOM.US/v2/phone/recording/download-all" ->
         [threw |-> FALSE, url |-> Url("zoom.us", DownloadPrefix \o << "-all" >>)]
    [] target = "https://evil.example/v2/phone/recording/download/abc" ->
         [threw |-> FALSE, url |-> Url("evil.example", DownloadPrefix \o << "/abc" >>)]
    [] target = "https://zoom.us@evil.example/v2/phone/recording/download/abc" ->
         [threw |-> FALSE, url |-> Url("evil.example", DownloadPrefix \o << "/abc" >>)]
    [] target = "https://api.zoom.us/v2/phone/recording/download/abc" ->
         [threw |-> FALSE, url |-> Url("api.zoom.us", DownloadPrefix \o << "/abc" >>)]
    [] target = "https://zoom.us/v2/phone/recording/download/../../../users" ->
         [threw |-> FALSE, url |-> Url("zoom.us", << "/v2/users" >>)]
    [] OTHER -> [threw |-> TRUE, url |-> NoUrl]

\* url.searchParams.get("url"): null when the parameter is missing
Targets ==
  { Null, "", "not a url",
    "https://zoom.us/v2/phone/recording/download/abc",
    "https://ZOOM.US/v2/phone/recording/download-all",
    "https://evil.example/v2/phone/recording/download/abc",
    "https://zoom.us@evil.example/v2/phone/recording/download/abc",
    "https://api.zoom.us/v2/phone/recording/download/abc",
    "https://zoom.us/v2/phone/recording/download/../../../users" }

\* what the token endpoint may answer with
AccessTokens == {"tokA", "tokB"}

TokenBodies ==
  [ access_token : AccessTokens \cup {Absent},
    expires_in : {Undefined, Num(0), Num(40), Num(60)} ]

\* what the upstream API may answer a handler's request with
UpstreamStatuses == {200, 404}

\* a handler slot that serves no request; cached tells whether the
\* invocation was given its token from the cache
NoRequest == [route |-> "none", target |-> Null, url |-> NoUrl, cached |-> FALSE]

\* no response returned yet
NoReply == [route |-> "none", target |-> Null, status |-> 0]

\* the envelope literal written without its next_page_token field
EnvelopeWithoutToken(f, t, recs) ==
  [ isNull |-> FALSE,
    from |-> f,
    to |-> t,
    total_records |-> Len(recs),
    next_page_token |-> Absent,
    recordings |-> recs ]

Envelope(f, t, recs) ==
  [ isNull |-> FALSE,
    from |-> f,
    to |-> t,
    total_records |-> Len(recs),
    next_page_token |-> Null,
    recordings |-> recs ]

\* What an invocation has done so far: the requests it issued per endpoint,
\* the records it was given in the order given (upstream records of the phone
\* pages, or the generated list), the from, to and next_page_token fields of
\* the first and the latest page as the upstream sent them.
NoHistory ==
  [ phoneRequests |-> 0,
    meetingRequests |-> 0,
    given |-> << >>,
    firstFrom |-> Absent,
    firstTo |-> Absent,
    cursor |-> Absent,
    failed |-> FALSE ]

\* The invocation that settled last: its slot, the props its closure held,
\* how it ended, the exception it caught and what it had done.
NoneSettled ==
  [ slot |-> 0,
    demoMode |-> FALSE,
    source |-> "none",
    outcome |-> "none",
    thrown |-> NoError,
    did |-> NoHistory ]

Init ==
  /\ data = NoData
  /\ loading = FALSE
  /\ error = Null
  /\ pc = [i \in Invocations |-> "idle"]
  /\ demoMode = [i \in Invocations |-> FALSE]
  /\ source = [i \in Invocations |-> "phone"]
  /\ allRecs = [i \in Invocations |-> << >>]
  /\ nextToken = [i \in Invocations |-> Null]
  /\ loops = [i \in Invocations |-> 0]
  /\ apiFrom = [i \in Invocations |-> Absent]
  /\ apiTo = [i \in Invocations |-> Absent]
  /\ net = {}
  /\ hist = [i \in Invocations |-> NoHistory]
  /\ settled = NoneSettled
  /\ now = 0
  /\ cachedToken = Null
  /\ cachedTokenExp = 0
  /\ wpc = [h \in Handlers |-> "idle"]
  /\ wreq = [h \in Handlers |-> NoRequest]
  /\ wnet = {}
  /\ wlast = NoReply

\* a task of some invocation is on the stack: nothing else runs meanwhile
Running == \E i \in Invocations : pc[i] = "started"

\* the hook as mounted: no invocation has started yet
Fresh ==
  /\ data = NoData
  /\ error = Null
  /\ settled = NoneSettled
  /\ \A i \in Invocations : pc[i] = "idle"

\* ------------------------------------------------ fetchAllPhoneRecordings
\* (apiPage.recordings ?? [])
RecordingsOf(apiPage) ==
  IF apiPage.has_recordings THEN apiPage.recordings ELSE << >>

\* the map left out: the records keep the source the upstream gave them
KeepSource(recs) == recs

\* .map((r) => ({ ...r, source: "phone" }))
TagPhone(recs) ==
  [k \in 1..Len(recs) |-> [recs[k] EXCEPT !.source = "phone"]]

\* allRecs.unshift(...recs)
Unshift(all, recs) == recs \o all

\* allRecs.push(...recs)
Push(all, recs) == all \o recs

\* apiFrom = apiFrom ?? apiPage.from ?? from
NextApiFrom(cur, apiPage) == Coalesce(Coalesce(cur, apiPage.from), from)

\* apiTo = apiPage.to ?? apiTo ?? to
NextApiTo(cur, apiPage) == Coalesce(Coalesce(apiPage.to, cur), to)

\* nextToken = apiPage.next_page_token ?? null
NextToken(apiPage) == Coalesce(apiPage.next_page_token, Null)

\* while (nextToken && loops <= MAX_PHONE_PAGES)
ContinueWalkOffByOne(token, n) == Truthy(token) /\ n <= MAX_PHONE_PAGES

\* while (nextToken && loops < MAX_PHONE_PAGES)
ContinueWalk(token, n) == Truthy(token) /\ n < MAX_PHONE_PAGES

\* the request built from the cursor the walk held before this page
PhoneRequestStale(i, token) ==
  [ inv |-> i,
    endpoint |-> PhoneEndpoint,
    from |-> from,
    to |-> to,
    next_page_token |-> IF Truthy(nextToken[i]) THEN nextToken[i] ELSE Absent ]

\* the URLSearchParams of one page request
PhoneRequest(i, token) ==
  [ inv |-> i,
    endpoint |-> PhoneEndpoint,
    from |-> from,
    to |-> to,
    next_page_token |-> IF Truthy(token) THEN token ELSE Absent ]

\* return { from: apiFrom ?? from, to: apiTo ?? to, recordings: allRecs }
WalkResult(f, t, recs) ==
  [from |-> Coalesce(f, from), to |-> Coalesce(t, to), recordings |-> recs]

\* a walk that catches the failure and returns the pages it has
WalkSalvages(e, f, t, recs) == [threw |-> FALSE, value |-> WalkResult(f, t, recs)]

\* The await of fetchJson stands in no try block of the walk: when it throws
\* on a page, the walk rejects with that error and the pages it had
\* accumulated are dropped with its locals.
WalkRejects(e, f, t, recs) == [threw |-> TRUE, error |-> e]

\* ---------------------------------------------- fetchAllMeetingRecordings
MeetingRequest(i) ==
  [ inv |-> i,
    endpoint |-> MeetingEndpoint,
    from |-> from,
    to |-> to,
    next_page_token |-> Absent ]

\* (api.meetings ?? [])
MeetingsOf(api) == IF api.has_meetings THEN api.meetings ELSE << >>

\* mm.hostEmail || mm.host_email || mm.owner_email || ""
HostEmail(mm) == Or(mm.hostEmail, Or(mm.host_email, Or(mm.owner_email, "")))

\* the chain without the resolved host email
HostNameSkipsEmail(mm, hostEmail) ==
  Or(mm.hostName, Or(mm.owner_name, Or(mm.topic, "Unknown")))

\* mm.hostName || mm.owner_name || hostEmail || mm.topic || "Unknown"
HostName(mm, hostEmail) ==
  Or(mm.hostName, Or(mm.owner_name, Or(hostEmail, Or(mm.topic, "Unknown"))))

\* Array.isArray(m.recording_files) ? m.recording_files : []
FilesOf(m) == IF m.has_files THEN m.recording_files ELSE << >>

\* new Date(s).getTime(), counted in ms from 2025-11-05T00:00Z: NaN for a
\* string that is no date
DateParse(s) ==
  CASE s \in {"2025-11-05T09:00Z", "2025-11-05T09:00:00.000Z"} -> Num(32400000)
    [] s \in {"2025-11-05T10:00Z", "2025-11-05T10:00:00.000Z"} -> Num(36000000)
    [] OTHER -> NaN

\* d.toISOString()
ToISOString(t) ==
  CASE t = 32400000 -> "2025-11-05T09:00:00.000Z"
    [] t = 36000000 -> "2025-11-05T10:00:00.000Z"

\* if (f.recording_start) { d = new Date(...); if (!isNaN(d.getTime())) ... }
HasValidStart(f) ==
  Truthy(f.recording_start) /\ ~DateParse(f.recording_start).nan

\* the array starts, before it is sorted
ValidStarts(files) ==
  LET ok == SelectSeq(files, HasValidStart)
  IN [k \in 1..Len(ok) |-> DateParse(ok[k].recording_start).val]

\* starts.sort((a, b) => b.getTime() - a.getTime()); starts[0]
LatestOf(starts) ==
  CHOOSE d \in {starts[k] : k \in 1..Len(starts)} :
    \A k \in 1..Len(starts) : d >= starts[k]

\* starts.sort((a, b) => a.getTime() - b.getTime()); starts[0]
EarliestOf(starts) ==
  CHOOSE d \in {starts[k] : k \in 1..Len(starts)} :
    \A k \in 1..Len(starts) : d <= starts[k]

\* if (starts.length) { ...; firstStartIso = starts[0].toISOString() }
FirstStartIso(files) ==
  LET starts == ValidStarts(files)
  IN IF Len(starts) # 0 THEN ToISOString(EarliestOf(starts)) ELSE Absent

\* typeof f.file_size === "number" ? f.file_size : 0
SizeOfUnchecked(f) ==
  IF f.file_size.type = "number" THEN f.file_size ELSE Num(0)

\* typeof f.file_size === "number" && !isNaN(f.file_size) ? f.file_size : 0
SizeOf(f) ==
  IF f.file_size.type = "number" /\ ~f.file_size.nan THEN f.file_size ELSE Num(0)

\* acc + sz on numbers
Add(a, b) == IF a.nan \/ b.nan THEN NaN ELSE Num(a.val + b.val)

\* files.reduce((acc, f) => acc + sz, 0)
RECURSIVE TotalSizeBytes(_)
TotalSizeBytes(files) ==
  IF files = << >> THEN Num(0)
  ELSE Add(TotalSizeBytes(SubSeq(files, 1, Len(files) - 1)), SizeOf(files[Len(files)]))

\* totalSizeBytes || undefined
FileSize(total) == IF total.nan \/ total.val = 0 THEN Undefined ELSE total

\* Array.from(new Set(list)): each value once, in the order first seen
RECURSIVE Distinct(_)
Distinct(list) ==
  IF list = << >> THEN << >>
  ELSE LET init == Distinct(SubSeq(list, 1, Len(list) - 1))
           last == list[Len(list)]
       IN IF \E k \in 1..Len(init) : init[k] = last THEN init ELSE Append(init, last)

NonEmpty(t) == t # ""

\* files.map((f) => f.file_type || "").filter((s) => ... s.length > 0)
FileTypes(files) ==
  Distinct(SelectSeq([k \in 1..Len(files) |-> Or(files[k].file_type, "")], NonEmpty))

\* id: m.uuid || String(m.id)
MeetingId(m) == IF m.uuid # "" THEN m.uuid ELSE ToString(m.id)

\* the canonical record of one meeting
NormalizeMeeting(m) ==
  LET hostEmail == HostEmail(m)
      hostName == HostName(m, hostEmail)
      files == FilesOf(m)
      firstStartIso == FirstStartIso(files)
      totalSizeBytes == TotalSizeBytes(files)
  IN [ id |-> MeetingId(m),
       date_time |-> Or(firstStartIso, m.start_time),
       download_url |-> Absent,
       caller_name |-> m.topic,
       callee_name |-> Or(hostEmail, hostName),
       owner |-> [type |-> "user", name |-> Or(hostName, Or(hostEmail, "Unknown"))],
       source |-> "meetings",
       topic |-> m.topic,
       host_name |-> hostName,
       host_email |-> hostEmail,
       meetingId |-> m.uuid,
       file_size |-> FileSize(totalSizeBytes),
       recording_files |-> files,
       files_count |-> Len(files),
       files_types |-> Arr(FileTypes(files)) ]

NormalizeMeetings(ms) == [k \in 1..Len(ms) |-> NormalizeMeeting(ms[k])]

MeetingResult(api) ==
  [ from |-> Coalesce(api.from, from),
    to |-> Coalesce(api.to, to),
    recordings |-> NormalizeMeetings(MeetingsOf(api)) ]

\* ------------------------------------------------------ demo generator
DemoRecs ==
  { [id |-> "demo-1", source |-> "phone"], [id |-> "demo-2", source |-> "meetings"] }

\* generateDemoRecordings(from, to): some list of generated records
GenerateDemoRecordings(f, t) == SeqsUpTo(DemoRecs, MaxDemo)

\* --------------------------------------------------------- fetchRecordings
\* e?.message || String(e)
ErrorMessage(e) == IF e.message # "" THEN e.message ELSE e.string

\* a catch block that also calls setData(null)
DataClearedOnCatch(d) == NoData

\* the catch block stores the message and calls no setData
DataAfterCatch(d) == d

\* setLoading(true)
LoadingAtStart == TRUE

\* setError(null)
ErrorAtStart(e) == Null

\* no finally block
LoadingLeftOn == loading

\* finally { setLoading(false) }
LoadingAtEnd == FALSE

\* the source filter tested before the demo flag
PathSourceFirst(dm, src) ==
  IF src = "phone" THEN "phone" ELSE IF dm THEN "demo" ELSE "meetings"

\* if (demoMode) ... else if (source === "phone") ... else ...
Path(dm, src) ==
  IF dm THEN "demo" ELSE IF src = "phone" THEN "phone" ELSE "meetings"

\* the invocation has settled: its closure and locals are gone
Leave(i, how, e, did) ==
  /\ pc' = [pc EXCEPT ![i] = "idle"]
  /\ demoMode' = [demoMode EXCEPT ![i] = FALSE]
  /\ source' = [source EXCEPT ![i] = "phone"]
  /\ allRecs' = [allRecs EXCEPT ![i] = << >>]
  /\ nextToken' = [nextToken EXCEPT ![i] = Null]
  /\ loops' = [loops EXCEPT ![i] = 0]
  /\ apiFrom' = [apiFrom EXCEPT ![i] = Absent]
  /\ apiTo' = [apiTo EXCEPT ![i] = Absent]
  /\ hist' = [hist EXCEPT ![i] = NoHistory]
  /\ settled' = [ slot |-> i,
                  demoMode |-> demoMode[i],
                  source |-> source[i],
                  outcome |-> how,
                  thrown |-> e,
                  did |-> did ]

\* the catch block, then the finally block
Catch(i, e, did) ==
  /\ data' = DataAfterCatch(data)
  /\ error' = ErrorMessage(e)
  /\ loading' = LoadingAtEnd
  /\ Leave(i, "error", e, did)

\* a walk stopped by the page cap reported as a failure
SucceedUnlessCapped(i, result, did) ==
  IF did.phoneRequests = MAX_PHONE_PAGES /\ Truthy(did.cursor)
  THEN Catch(i, [message |-> "too many pages", string |-> "Error: too many pages"], did)
  ELSE /\ data' = Envelope(result.from, result.to, result.recordings)
       /\ loading' = LoadingAtEnd
       /\ UNCHANGED error
       /\ Leave(i, "success", NoError, did)

\* setData of the try block, then the finally block
Succeed(i, result, did) ==
  /\ data' = Envelope(result.from, result.to, result.recordings)
  /\ loading' = LoadingAtEnd
  /\ UNCHANGED error
  /\ Leave(i, "success", NoError, did)

\* fetchRecordings() is called (handleSearch, or the mount effect): the
\* statements before the try block
Invoke(i, dm, src) ==
  /\ ~Running
  /\ pc[i] = "idle"
  /\ \A j \in Invocations : j < i => pc[j] # "idle"
  /\ loading' = LoadingAtStart
  /\ error' = ErrorAtStart(error)
  /\ pc' = [pc EXCEPT ![i] = "started"]
  /\ demoMode' = [demoMode EXCEPT ![i] = dm]
  /\ source' = [source EXCEPT ![i] = src]
  /\ UNCHANGED << data, walkLocals, net, hist, settled, worker >>

\* if (demoMode) { ... setData(...); return; } and the finally block
DispatchDemo(i) ==
  /\ pc[i] = "started"
  /\ Path(demoMode[i], source[i]) = "demo"
  /\ \E recs \in GenerateDemoRecordings(from, to) :
       Succeed(i, [from |-> from, to |-> to, recordings |-> recs],
               [hist[i] EXCEPT !.given = recs])
  /\ UNCHANGED << net, worker >>

\* source === "phone": fetchAllPhoneRecordings() up to its first await
DispatchPhone(i) ==
  /\ pc[i] = "started"
  /\ Path(demoMode[i], source[i]) = "phone"
  /\ pc' = [pc EXCEPT ![i] = "fetching"]
  /\ allRecs' = [allRecs EXCEPT ![i] = << >>]
  /\ nextToken' = [nextToken EXCEPT ![i] = Null]
  /\ loops' = [loops EXCEPT ![i] = 0]
  /\ apiFrom' = [apiFrom EXCEPT ![i] = Absent]
  /\ apiTo' = [apiTo EXCEPT ![i] = Absent]
  /\ net' = net \cup {PhoneRequest(i, Null)}
  /\ hist' = [hist EXCEPT ![i].phoneRequests = @ + 1]
  /\ UNCHANGED << hookState, closure, settled, worker >>

\* otherwise: fetchAllMeetingRecordings() up to its await
DispatchMeetings(i) ==
  /\ pc[i] = "started"
  /\ Path(demoMode[i], source[i]) = "meetings"
  /\ pc' = [pc EXCEPT ![i] = "fetching"]
  /\ net' = net \cup {MeetingRequest(i)}
  /\ hist' = [hist EXCEPT ![i].meetingRequests = @ + 1]
  /\ UNCHANGED << hookState, closure, walkLocals, settled, worker >>

\* a phone page request is answered and fetchJson returns the page: the rest
\* of the loop body, then either the next request or the return, setData
\* and the finally block
PhonePage(i, res) ==
  /\ UNCHANGED worker
  /\ ~Running
  /\ pc[i] = "fetching"
  /\ \E req \in net :
       /\ req.inv = i
       /\ req.endpoint = PhoneEndpoint
       /\ LET r == FetchJson(res)
              apiPage == r.value
              recs == TagPhone(RecordingsOf(apiPage))
              f == NextApiFrom(apiFrom[i], apiPage)
              t == NextApiTo(apiTo[i], apiPage)
              all == Push(allRecs[i], recs)
              token == NextToken(apiPage)
              n == loops[i] + 1
              first == loops[i] = 0
              did == [ hist[i] EXCEPT
                         !.given = @ \o RecordingsOf(apiPage),
                         !.firstFrom = IF first THEN apiPage.from ELSE @,
                         !.firstTo = IF first THEN apiPage.to ELSE @,
                         !.cursor = apiPage.next_page_token ]
          IN /\ ~r.threw
             /\ IF ContinueWalk(token, n)
                THEN /\ allRecs' = [allRecs EXCEPT ![i] = all]
                     /\ nextToken' = [nextToken EXCEPT ![i] = token]
                     /\ loops' = [loops EXCEPT ![i] = n]
                     /\ apiFrom' = [apiFrom EXCEPT ![i] = f]
                     /\ apiTo' = [apiTo EXCEPT ![i] = t]
                     /\ net' = (net \ {req}) \cup {PhoneRequest(i, token)}
                     /\ hist' = [hist EXCEPT ![i] =
                                   [did EXCEPT !.phoneRequests = @ + 1]]
                     /\ UNCHANGED << hookState, pc, closure, settled >>
                ELSE /\ Succeed(i, WalkResult(f, t, all), did)
                     /\ net' = net \ {req}

\* the meetings request is answered and fetchJson returns the response
MeetingsPage(i, res) ==
  /\ UNCHANGED worker
  /\ ~Running
  /\ pc[i] = "fetching"
  /\ \E req \in net :
       /\ req.inv = i
       /\ req.endpoint = MeetingEndpoint
       /\ LET r == FetchJson(res)
          IN /\ ~r.threw
             /\ Succeed(i, MeetingResult(r.value),
                        [hist[i] EXCEPT !.given = MeetingsOf(r.value)])
             /\ net' = net \ {req}

\* a request of either path is answered and fetchJson throws: the walk (or
\* the meetings fetch) rejects, fetchRecordings catches
FetchFailed(i, res) ==
  /\ UNCHANGED worker
  /\ ~Running
  /\ pc[i] = "fetching"
  /\ \E req \in net :
       /\ req.inv = i
       /\ LET r == FetchJson(res)
              did == [hist[i] EXCEPT !.failed = TRUE]
              w == IF req.endpoint = PhoneEndpoint
                   THEN WalkRejects(r.error, apiFrom[i], apiTo[i], allRecs[i])
                   ELSE r
          IN /\ r.threw
             /\ IF w.threw
                THEN Catch(i, w.error, did)
                ELSE Succeed(i, w.value, did)
             /\ net' = net \ {req}

\* ------------------------------------------------------- the environment
\* a walk is given at most MaxRecs records in total
Room(i) == MaxRecs - Len(hist[i].given)

\* When invocations overlap, the upstream ends a cursor chain by page MaxChain
\* and its pages are bare: no records, no from and to.
Bare(i, res) ==
  /\ loops[i] + 1 < MaxChain \/ ~Truthy(res.body.next_page_token)
  /\ res.body.from = Absent
  /\ res.body.to = Absent
  /\ RecordingsOf(res.body) = << >>

\* overlapping invocations, one after another without end
Next ==
  \E i \in Invocations :
    \/ \E dm \in BOOLEAN, src \in {"phone", "meetings"} : Invoke(i, dm, src)
    \/ DispatchDemo(i)
    \/ DispatchPhone(i)
    \/ DispatchMeetings(i)
    \/ \E res \in OkResponses(PhonePages(0)) : Bare(i, res) /\ PhonePage(i, res)
    \/ \E res \in OkResponses(MeetingPages) : MeetingsPage(i, res)
    \/ \E res \in FailedResponses : FetchFailed(i, res)

Spec == Init /\ [][Next]_vars

\* the invocation of the mount effect, alone, with any cursor chain
NextWalk ==
  \E i \in Invocations :
    \/ \E dm \in BOOLEAN, src \in {"phone", "meetings"} :
         Fresh /\ Invoke(i, dm, src)
    \/ DispatchDemo(i)
    \/ DispatchPhone(i)
    \/ DispatchMeetings(i)
    \/ \E res \in OkResponses(PhonePages(Room(i))) : PhonePage(i, res)
    \/ \E res \in OkResponses(MeetingPages) : MeetingsPage(i, res)
    \/ \E res \in FailedResponses : FetchFailed(i, res)

SpecWalk == Init /\ [][NextWalk]_vars

\* the invocation of the mount effect with source = meetings, the response
\* carrying a meeting with identity fields or embedded files
NextMeetings ==
  \E i \in Invocations :
    \/ Fresh /\ Invoke(i, FALSE, "meetings")
    \/ DispatchMeetings(i)
    \/ /\ pc[i] = "fetching"
       /\ \E res \in OkResponses(RichMeetingPages \cup MeetingPages) :
            MeetingsPage(i, res)
    \/ \E res \in FailedResponses : FetchFailed(i, res)

SpecMeetings == Init /\ [][NextMeetings]_vars

\* every dispatch and every answer of the network eventually happens
Progress ==
  \E i \in Invocations :
    \/ DispatchDemo(i)
    \/ DispatchPhone(i)
    \/ DispatchMeetings(i)
    \/ \E res \in OkResponses(PhonePages(Room(i))) : PhonePage(i, res)
    \/ \E res \in OkResponses(MeetingPages) : MeetingsPage(i, res)
    \/ \E res \in FailedResponses : FetchFailed(i, res)

FairWalk == SpecWalk /\ WF_vars(Progress)

\* ------------------------------------------------------------ the worker
\* if (cachedToken && now < cachedTokenExp - 30_000)
CacheFreshNoMargin(token, exp, t) == Truthy(token) /\ t < exp

\* if (cachedToken && now < cachedTokenExp - 30_000)
CacheFresh(token, exp, t) == Truthy(token) /\ t < exp - RefreshMarginMs

\* (data.expires_in || 3600) * 1000
ExpiresMs(e) ==
  (IF e.type = "number" /\ ~e.nan /\ e.val # 0 THEN e.val ELSE DefaultExpiresIn) * 1000

\* the POST to ZOOM_OAUTH_TOKEN_URL, with Basic credentials
TokenRequest(h, route) ==
  [ handler |-> h, kind |-> "token", route |-> route,
    url |-> Url(OAuthHost, << "/oauth/token" >>), bearer |-> Absent ]

\* fetch(url, { headers: { Authorization: `Bearer ${token}` } })
UpstreamRequest(h, route, url, token) ==
  [ handler |-> h, kind |-> "upstream", route |-> route, url |-> url,
    bearer |-> token ]

\* zoomUrl.pathname.startsWith(prefix)
StartsWith(pathname, prefix) ==
  Len(pathname) >= Len(prefix) /\ SubSeq(pathname, 1, Len(prefix)) = prefix

\* the test that takes only the pathname into account
BlockedByPathOnly(zoomUrl) == ~StartsWith(zoomUrl.pathname, DownloadPrefix)

\* zoomUrl.hostname !== "zoom.us" || !zoomUrl.pathname.startsWith(...)
Blocked(zoomUrl) ==
  zoomUrl.hostname # "zoom.us" \/ ~StartsWith(zoomUrl.pathname, DownloadPrefix)

\* the handler returns a response (or rejects: the runtime answers 500)
Reply(h, route, target, status) ==
  /\ wlast' = [route |-> route, target |-> target, status |-> status]
  /\ wpc' = [wpc EXCEPT ![h] = "idle"]
  /\ wreq' = [wreq EXCEPT ![h] = NoRequest]

\* const token = await getZoomAccessToken(env), up to its first await: the
\* cached token is returned and the handler goes on to its upstream request,
\* or the token request is issued
CallGetZoomAccessToken(h, route, target, url) ==
  /\ wreq' = [wreq EXCEPT ![h] =
                [ route |-> route, target |-> target, url |-> url,
                  cached |-> CacheFresh(cachedToken, cachedTokenExp, now) ]]
  /\ IF CacheFresh(cachedToken, cachedTokenExp, now)
     THEN /\ wpc' = [wpc EXCEPT ![h] = "upstream"]
          /\ wnet' = wnet \cup {UpstreamRequest(h, route, url, cachedToken)}
     ELSE /\ wpc' = [wpc EXCEPT ![h] = "token"]
          /\ wnet' = wnet \cup {TokenRequest(h, route)}
  /\ UNCHANGED << now, cachedToken, cachedTokenExp, wlast, hook >>

\* GET /api/phone/recordings
HandleGetRecordings(h) ==
  /\ wpc[h] = "idle"
  /\ CallGetZoomAccessToken(h, "phone", Null, Url(ApiHost, << "/v2/phone/recordings" >>))

\* GET /api/phone/recordings/download?url=target
HandleDownloadRecording(h, target) ==
  /\ wpc[h] = "idle"
  /\ LET parsed == ParseUrl(target)
     IN IF ~Truthy(target) \/ parsed.threw \/ Blocked(parsed.url)
        THEN /\ Reply(h, "download", target, 400)
             /\ UNCHANGED << now, cachedToken, cachedTokenExp, wnet, hook >>
        ELSE CallGetZoomAccessToken(h, "download", target, parsed.url)

\* the token endpoint answers 2xx: the cache is written and the token
\* returned, and the handler goes on to its upstream request
TokenGranted(h, body) ==
  /\ wpc[h] = "token"
  /\ \E req \in wnet :
       /\ req.handler = h
       /\ req.kind = "token"
       /\ cachedToken' = body.access_token
       /\ cachedTokenExp' = now + ExpiresMs(body.expires_in)
       /\ wpc' = [wpc EXCEPT ![h] = "upstream"]
       /\ wnet' = (wnet \ {req}) \cup
            {UpstreamRequest(h, wreq[h].route, wreq[h].url, body.access_token)}
  /\ UNCHANGED << now, wreq, wlast, hook >>

\* the token endpoint answers non-2xx, or the fetch rejects:
\* getZoomAccessToken throws, and so does the handler
TokenRefused(h) ==
  /\ wpc[h] = "token"
  /\ \E req \in wnet :
       /\ req.handler = h
       /\ req.kind = "token"
       /\ wnet' = wnet \ {req}
  /\ Reply(h, wreq[h].route, wreq[h].target, 500)
  /\ UNCHANGED << now, cachedToken, cachedTokenExp, hook >>

\* the upstream answers: the handler relays its status
UpstreamAnswered(h, status) ==
  /\ wpc[h] = "upstream"
  /\ \E req \in wnet :
       /\ req.handler = h
       /\ req.kind = "upstream"
       /\ wnet' = wnet \ {req}
  /\ Reply(h, wreq[h].route, wreq[h].target, status)
  /\ UNCHANGED << now, cachedToken, cachedTokenExp, hook >>

\* time passes
Tick ==
  /\ now + 10000 <= MaxTicks * 10000
  /\ now' = now + 10000
  /\ UNCHANGED << cachedToken, cachedTokenExp, wpc, wreq, wnet, wlast, hook >>

NextWorker ==
  \/ Tick
  \/ \E h \in Handlers :
       \/ HandleGetRecordings(h)
       \/ \E target \in Targets : HandleDownloadRecording(h, target)
       \/ \E body \in TokenBodies : TokenGranted(h, body)
       \/ TokenRefused(h)
       \/ \E status \in UpstreamStatuses : UpstreamAnswered(h, status)

SpecWorker == Init /\ [][NextWorker]_vars

\* ------------------------------------------------------------ the claims
Mine(i) == {r \in net : r.inv = i}

AllIdle == \A i \in Invocations : pc[i] = "idle"

\* the invocation that settled last ran the phone walk
SettledPhone == settled.slot # 0 /\ ~settled.demoMode /\ settled.source = "phone"

\* ... and left it by the 20-page cap, the upstream still giving a cursor
SettledAtCap ==
  /\ SettledPhone
  /\ settled.outcome = "success"
  /\ settled.did.phoneRequests = 20
  /\ Truthy(settled.did.cursor)

\* C1: whatever the upstream answers, and also when every page carries a
\* cursor, one walk issues at most 20 page requests, and after the answer to
\* the 20th it has returned: nothing of it is in flight.
C1_AtMostTwentyPageRequests ==
  /\ \A i \in Invocations : hist[i].phoneRequests <= 20
  /\ settled.did.phoneRequests <= 20
  /\ \A i \in Invocations : Mine(i) # {} => loops[i] < 20
  /\ (SettledPhone /\ settled.did.phoneRequests = 20) => net = {} /\ AllIdle

C1_Witness == SettledAtCap /\ net = {}

\* C2: when every page request of a walk succeeded, the stored recordings
\* are the upstream records of its pages, in the order they were given, each
\* one once and each tagged source = "phone".
C2_RecordingsAreThePagesInOrder ==
  (SettledPhone /\ ~settled.did.failed) =>
     /\ data # NoData
     /\ Len(data.recordings) = Len(settled.did.given)
     /\ \A k \in 1..Len(settled.did.given) :
          data.recordings[k] = [settled.did.given[k] EXCEPT !.source = "phone"]

C2_Witness ==
  /\ SettledPhone
  /\ ~settled.did.failed
  /\ settled.did.phoneRequests >= 2
  /\ Len(settled.did.given) = 2
  /\ settled.did.given[1].id = "b"
  /\ settled.did.given[2].id = "a"
  /\ data.recordings[1].id = "b"
  /\ Len(data.recordings) = 2

\* C3: when a page request of a walk fails, the invocation ends in error,
\* nothing of it stays in flight, and data is not set: the records of the
\* pages before the failing one do not reach it.
C3_FailedWalkYieldsNothing ==
  (SettledPhone /\ settled.did.failed) =>
     /\ settled.outcome = "error"
     /\ error # Null
     /\ data = NoData
     /\ net = {}
     /\ AllIdle

C3_Witness ==
  /\ SettledPhone
  /\ settled.did.failed
  /\ settled.did.phoneRequests >= 2
  /\ Len(settled.did.given) >= 1
  /\ data = NoData

\* C4: an invocation in demo mode issues no request to either endpoint,
\* whatever the source filter is, and stores the generated records with the
\* requested from and to and the generated count.
C4_DemoModeIssuesNoRequest ==
  /\ \A i \in Invocations :
       demoMode[i] =>
         /\ hist[i].phoneRequests = 0
         /\ hist[i].meetingRequests = 0
         /\ Mine(i) = {}
  /\ settled.demoMode =>
       /\ settled.did.phoneRequests = 0
       /\ settled.did.meetingRequests = 0
       /\ settled.outcome = "success"
       /\ data # NoData
       /\ data.from = from
       /\ data.to = to
       /\ data.total_records = Len(settled.did.given)
       /\ data.recordings = settled.did.given

C4_Witness ==
  /\ settled.demoMode
  /\ settled.source = "phone"
  /\ Len(settled.did.given) = 1
  /\ data.total_records = 1

\* C5: the step in which an invocation catches the exception of its path
\* leaves data as it is and sets error to the exception's message, or to its
\* string form when the message is empty; and data changes only in the step
\* in which an invocation whose path did not throw settles.
C5_FailureKeepsDataSetsError ==
  /\ [][ \A i \in Invocations :
           (pc[i] = "fetching" /\ pc'[i] = "idle" /\ settled'.did.failed) =>
              /\ data' = data
              /\ error' = IF settled'.thrown.message # ""
                          THEN settled'.thrown.message
                          ELSE settled'.thrown.string ]_vars
  /\ [][ data' # data =>
           \E i \in Invocations :
              pc[i] # "idle" /\ pc'[i] = "idle" /\ ~settled'.did.failed ]_vars

C5_Witness ==
  /\ settled.did.failed
  /\ settled.outcome = "error"
  /\ settled.thrown.message = ""
  /\ error = "TypeError"
  /\ data # NoData

\* C6: every envelope stored in data has next_page_token null and
\* total_records equal to the number of its recordings, also the one of a
\* walk that the 20-page cap stopped.
C6_EnvelopeTokenNullCountExact ==
  data # NoData =>
     /\ data.next_page_token = Null
     /\ data.total_records = Len(data.recordings)

C6_Witness ==
  /\ SettledAtCap
  /\ data.next_page_token = Null
  /\ data.total_records = 2

\* C7: a walk has at most one request outstanding; its first request has no
\* next_page_token; request n+1 is outstanding only when n pages have been
\* processed, and it carries the cursor of the walk's own latest page.
C7_SequentialCursorThreading ==
  \A i \in Invocations :
     /\ Cardinality(Mine(i)) <= 1
     /\ \A r \in Mine(i) :
          r.endpoint = PhoneEndpoint =>
             /\ hist[i].phoneRequests = loops[i] + 1
             /\ IF loops[i] = 0
                THEN r.next_page_token = Absent
                ELSE /\ Truthy(hist[i].cursor)
                     /\ r.next_page_token = hist[i].cursor

C7_Witness ==
  /\ loops[1] = 2
  /\ loops[2] = 1
  /\ \E r1 \in Mine(1), r2 \in Mine(2) :
       r1.next_page_token = "t1" /\ r2.next_page_token = "t2"

\* C8: the from and to a successful walk returns are those of its first
\* page, each the requested value when the first page has none.
C8_FromToOfFirstPage ==
  (SettledPhone /\ settled.outcome = "success" /\ ~settled.did.failed) =>
     /\ data.from = Coalesce(settled.did.firstFrom, from)
     /\ data.to = Coalesce(settled.did.firstTo, to)

\* C9: outside demo mode an invocation talks to the one endpoint its source
\* filter selects (phone: the phone endpoint only; meetings: one request to
\* the meetings endpoint and none to the phone endpoint), and the recordings
\* it stores all carry the tag of that source.
C9_OneUpstreamPathPerInvocation ==
  /\ \A i \in Invocations :
       (pc[i] = "fetching" /\ ~demoMode[i]) =>
          IF source[i] = "phone"
          THEN /\ hist[i].meetingRequests = 0
               /\ \A r \in Mine(i) : r.endpoint = PhoneEndpoint
          ELSE /\ hist[i].meetingRequests = 1
               /\ hist[i].phoneRequests = 0
               /\ \A r \in Mine(i) : r.endpoint = MeetingEndpoint
  /\ (settled.slot # 0 /\ ~settled.demoMode) =>
       /\ IF settled.source = "phone"
          THEN settled.did.meetingRequests = 0 /\ settled.did.phoneRequests >= 1
          ELSE settled.did.meetingRequests = 1 /\ settled.did.phoneRequests = 0
       /\ settled.outcome = "success" =>
            \A k \in 1..Len(data.recordings) :
               data.recordings[k].source = settled.source

C9_Witness ==
  /\ settled.slot # 0
  /\ ~settled.demoMode
  /\ settled.source = "meetings"
  /\ settled.outcome = "success"
  /\ settled.did.meetingRequests = 1
  /\ Len(data.recordings) = 1

C11_LastSettledWins ==
  (AllIdle /\ settled.slot # 0) =>
     IF settled.outcome = "success"
     THEN /\ error = Null
          /\ data # NoData
          /\ data.total_records = Len(settled.did.given)
     ELSE error = IF settled.thrown.message # ""
                  THEN settled.thrown.message
                  ELSE settled.thrown.string

\* the invocation that settled last stored the answer of the meetings endpoint
SettledMeetings ==
  /\ settled.slot # 0
  /\ ~settled.demoMode
  /\ settled.source = "meetings"
  /\ settled.outcome = "success"
  /\ Len(data.recordings) = Len(settled.did.given)

\* the instants of the embedded files' recording_start values that are dates
StartInstants(m) ==
  IF ~m.has_files THEN {}
  ELSE { DateParse(m.recording_files[k].recording_start).val :
           k \in { j \in 1..Len(m.recording_files) :
                     /\ Truthy(m.recording_files[j].recording_start)
                     /\ ~DateParse(m.recording_files[j].recording_start).nan } }

\* C12: the date_time of a normalized meeting is the earliest instant among
\* its files' recording_start values that parse to a date, in ISO form; when
\* no file has such a value it is the meeting's start_time.  Values that
\* do not parse are passed over and the invocation still succeeds.
C12_DateTimeIsEarliestValidStart ==
  SettledMeetings =>
    \A k \in 1..Len(settled.did.given) :
      LET m == settled.did.given[k]
          r == data.recordings[k]
          T == StartInstants(m)
      IN IF T # {}
         THEN /\ ~DateParse(r.date_time).nan
              /\ DateParse(r.date_time).val \in T
              /\ \A t \in T : DateParse(r.date_time).val <= t
              /\ r.date_time = ToISOString(DateParse(r.date_time).val)
         ELSE r.date_time = m.start_time

C12_Witness ==
  /\ SettledMeetings
  /\ Len(settled.did.given) = 1
  /\ settled.did.given[1].has_files
  /\ [k \in 1..Len(settled.did.given[1].recording_files) |->
        settled.did.given[1].recording_files[k].recording_start]
       = << "2025-11-05T10:00Z", "2025-11-05T09:00Z", "invalid" >>
  /\ data.recordings[1].date_time = "2025-11-05T09:00:00.000Z"

\* the bytes a file counts for: its file_size when that is a number other
\* than NaN, zero otherwise
Bytes(f) ==
  IF f.file_size.type = "number" /\ ~f.file_size.nan THEN f.file_size.val ELSE 0

RECURSIVE SumBytes(_, _)
SumBytes(files, k) == IF k = 0 THEN 0 ELSE SumBytes(files, k - 1) + Bytes(files[k])

SumOfSizes(m) ==
  IF m.has_files THEN SumBytes(m.recording_files, Len(m.recording_files)) ELSE 0

\* C13, as stated: the file_size of a normalized meeting is the number that
\* is the sum of its files' sizes, invalid sizes counting zero, also when the
\* meeting has no files or the sum is zero.
C13_FileSizeIsAlwaysTheSum ==
  SettledMeetings =>
    \A k \in 1..Len(settled.did.given) :
      data.recordings[k].file_size = Num(SumOfSizes(settled.did.given[k]))

\* C13, amended: file_size is that sum when the sum is not zero and is
\* undefined when the sum is zero; it is never NaN.
C13_FileSizeIsTheSumOrUndefined ==
  SettledMeetings =>
    \A k \in 1..Len(settled.did.given) :
      /\ data.recordings[k].file_size =
           IF SumOfSizes(settled.did.given[k]) # 0
           THEN Num(SumOfSizes(settled.did.given[k]))
           ELSE Undefined
      /\ data.recordings[k].file_size # NaN

C13_Witness ==
  /\ SettledMeetings
  /\ Len(settled.did.given) = 1
  /\ settled.did.given[1].has_files
  /\ [k \in 1..Len(settled.did.given[1].recording_files) |->
        settled.did.given[1].recording_files[k].file_size]
       = << Num(100), NaN, Str("x"), Num(50) >>
  /\ data.recordings[1].file_size = Num(150)

\* the first value of a list that is a non-empty string, else the default
FirstNonEmpty(list, default) ==
  LET idx == {k \in 1..Len(list) : list[k] \notin {Absent, Null, ""}}
  IN IF idx = {} THEN default
     ELSE list[CHOOSE k \in idx : \A j \in idx : k <= j]

\* C14: host_email is the first non-empty of hostEmail, host_email,
\* owner_email, else ""; host_name is the first non-empty of hostName,
\* owner_name, that host_email, topic, else "Unknown"; host_name and
\* owner.name are never empty; with only owner_email set both are it.
C14_HostFallbackChains ==
  SettledMeetings =>
    \A k \in 1..Len(settled.did.given) :
      LET m == settled.did.given[k]
          r == data.recordings[k]
      IN /\ r.host_email =
              FirstNonEmpty(<< m.hostEmail, m.host_email, m.owner_email >>, "")
         /\ r.host_name =
              FirstNonEmpty(<< m.hostName, m.owner_name, r.host_email, m.topic >>,
                            "Unknown")
         /\ r.host_name \notin {Absent, Null, ""}
         /\ r.owner.name \notin {Absent, Null, ""}
         /\ ( /\ m.owner_email = "a@x.com"
              /\ ~Truthy(m.hostEmail) /\ ~Truthy(m.host_email)
              /\ ~Truthy(m.hostName) /\ ~Truthy(m.owner_name) )
            => r.host_email = "a@x.com" /\ r.host_name = "a@x.com"

C14_Witness ==
  /\ SettledMeetings
  /\ Len(settled.did.given) = 1
  /\ settled.did.given[1].owner_email = "a@x.com"
  /\ settled.did.given[1].hostEmail = Absent
  /\ settled.did.given[1].host_email = Absent
  /\ settled.did.given[1].hostName = Absent
  /\ settled.did.given[1].owner_name = Absent
  /\ settled.did.given[1].topic = "Topic"
  /\ data.recordings[1].host_email = "a@x.com"
  /\ data.recordings[1].host_name = "a@x.com"

\* C15: in every stored record list the source tag selects the optional
\* fields: a record tagged phone has no topic, host_email or files_types,
\* whatever the upstream record carried, and a record tagged meetings has no
\* download_url.
C15_SourceTagSelectsFields ==
  (settled.slot # 0 /\ ~settled.demoMode /\ settled.outcome = "success") =>
    \A k \in 1..Len(data.recordings) :
      LET r == data.recordings[k]
      IN /\ r.source = "phone" =>
              /\ r.topic = Absent
              /\ r.host_email = Absent
              /\ r.files_types = Undefined
         /\ r.source = "meetings" => r.download_url = Absent

\* C17: a walk that the 20-page cap stopped, the upstream still giving a
\* cursor, ends in success: error is null, loading is off, and data is an
\* ordinary envelope holding the records of the 20 pages and no cursor.
C17_CapEndsInSilentSuccess ==
  ( /\ SettledPhone
    /\ ~settled.did.failed
    /\ settled.did.phoneRequests = 20
    /\ Truthy(settled.did.cursor) ) =>
     /\ settled.outcome = "success"
     /\ error = Null
     /\ ~loading
     /\ data # NoData
     /\ Len(data.recordings) = Len(settled.did.given)
     /\ \A k \in 1..Len(settled.did.given) :
          data.recordings[k].id = settled.did.given[k].id
     /\ data.next_page_token = Null
     /\ DOMAIN data =
          {"isNull", "from", "to", "total_records", "next_page_token", "recordings"}

C17_Witness ==
  /\ SettledAtCap
  /\ error = Null
  /\ Len(settled.did.given) = 2
  /\ data.recordings[1].id = "a"
  /\ data.recordings[2].id = "b"

\* C18: loading is on exactly while some invocation has started and not
\* settled, also when invocations overlap.
C18_LoadingReflectsInFlight ==
  loading <=> (\E i \in Invocations : pc[i] # "idle")

\* C19: a page request carries either no next_page_token parameter or a
\* non-empty one; a walk has a request outstanding after its first page only
\* when its latest page gave a non-empty cursor; and a walk that ended before
\* the cap ended on a page whose cursor was absent, null or empty.
C19_EmptyCursorEndsTheWalk ==
  /\ \A r \in net :
       r.endpoint = PhoneEndpoint => r.next_page_token \notin {Null, ""}
  /\ \A i \in Invocations :
       (Mine(i) # {} /\ hist[i].phoneRequests >= 2) =>
          hist[i].cursor \notin {Absent, Null, ""}
  /\ ( /\ SettledPhone
       /\ ~settled.did.failed
       /\ settled.did.cursor \in {Absent, Null, ""} ) =>
        /\ settled.outcome = "success"
        /\ net = {}
        /\ AllIdle
  /\ ( /\ SettledPhone
       /\ ~settled.did.failed
       /\ settled.did.phoneRequests < 20 ) =>
        settled.did.cursor \in {Absent, Null, ""}

C19_Witness ==
  /\ SettledPhone
  /\ ~settled.did.failed
  /\ settled.did.phoneRequests = 2
  /\ settled.did.cursor = ""
  /\ net = {}

\* C16: a handler's call of getZoomAccessToken issues a token request only
\* when no token is cached or the clock is within 30 s of the cached expiry
\* or past it; otherwise it hands out the cached token, with more than 30 s
\* left to the expiry the cache holds for it at that moment, and leaves token
\* and expiry as they are, whatever other handler invocations are in flight.
\* The cache changes only in a step that stores a token answer.
C16_TokenCacheRefreshDiscipline ==
  /\ [][ \A h \in Handlers :
           (wpc[h] = "idle" /\ wpc'[h] = "token") =>
              /\ cachedToken \in {Null, Absent, ""} \/ now >= cachedTokenExp - 30000
              /\ \E r \in wnet' \ wnet : r.kind = "token" /\ r.handler = h ]_vars
  /\ [][ \A h \in Handlers :
           (wpc[h] = "idle" /\ wpc'[h] = "upstream") =>
              /\ cachedToken \notin {Null, Absent, ""}
              /\ cachedTokenExp - now > 30000
              /\ cachedToken' = cachedToken
              /\ cachedTokenExp' = cachedTokenExp
              /\ \A r \in wnet' \ wnet :
                   r.kind = "upstream" /\ r.handler = h /\ r.bearer = cachedToken ]_vars
  /\ [][ (cachedToken' # cachedToken \/ cachedTokenExp' # cachedTokenExp) =>
           \E h \in Handlers : wpc[h] = "token" /\ wpc'[h] = "upstream" ]_vars

C16_Witness ==
  /\ now = 20000
  /\ cachedToken = "tokA"
  /\ cachedTokenExp = 60000
  /\ wpc[1] = "upstream"
  /\ wreq[1].cached
  /\ wpc[2] = "token"
  /\ \E r \in wnet : r.handler = 1 /\ r.bearer = "tokA"

\* the targets of the model that parse to a URL with hostname zoom.us and a
\* path beginning with /v2/phone/recording/download
ZoomDownloadTargets ==
  { "https://zoom.us/v2/phone/recording/download/abc",
    "https://ZOOM.US/v2/phone/recording/download-all" }

\* C20: a download handler invocation goes beyond its checks only for a
\* target that parses with hostname zoom.us and a path beginning with the
\* download prefix, and then its upstream request goes to zoom.us; for any
\* other target the step answers 400 and changes neither the token cache
\* nor the outstanding requests: no token request, no upstream request.
C20_DownloadProxyGuardsTarget ==
  /\ [](\A h \in Handlers :
          wreq[h].route = "download" => wreq[h].target \in ZoomDownloadTargets)
  /\ [](\A r \in wnet :
          r.route = "download" =>
             /\ r.url.hostname = "zoom.us"
             /\ r.kind = "upstream" =>
                  /\ Len(r.url.pathname) >= 1
                  /\ r.url.pathname[1] = "/v2/phone/recording/download")
  /\ [][ ( /\ wlast' # wlast
           /\ wlast'.route = "download"
           /\ wlast'.target \notin ZoomDownloadTargets ) =>
            /\ wlast'.status = 400
            /\ cachedToken' = cachedToken
            /\ cachedTokenExp' = cachedTokenExp
            /\ wnet' = wnet ]_vars

C20_Witness ==
  /\ wlast.route = "download"
  /\ wlast.target = "https://zoom.us@evil.example/v2/phone/recording/download/abc"
  /\ wlast.status = 400
  /\ cachedToken = Null
  /\ wnet = {}

====
